---- MODULE Spec2Model ----
(***************************************************************************)
(* CopyProject (code-sandbox-mcp/tools/copy-project.go): copy a local      *)
(* directory into a container.  The file holds two variants of the tool:   *)
(* variant 1 (lines 1-275) copies the contents directly into /app when no  *)
(* dest_dir is given and relies on the runtime's copy call alone; variant 2*)
(* (lines 277-494) always nests the tree under its base name and runs      *)
(* `mkdir -p` in the container before the copy call.                       *)
(*                                                                         *)
(* Strings are sequences of one-character strings, so that the path        *)
(* functions of path/filepath are computed rather than assumed.            *)
(***************************************************************************)
EXTENDS Integers, Sequences, FiniteSets, TLC

(* ------------------------------ strings ------------------------------- *)

\* The characters dest_dir arguments are written with.
Chars == {"/", ".", "a"}

Slash == <<"/">>
Dot == <<".">>
DotDot == <<".", ".">>
AppDir == <<"/", "a", "p", "p">>

\* strings.HasPrefix(s, "/")
HasSlashPrefix(s) == Len(s) > 0 /\ s[1] = "/"

\* The sequences of length at most n over the set S.
StringsUpTo(S, n) == UNION {[1..k -> S] : k \in 0..n}

RECURSIVE SplitFrom(_, _, _)
\* The non-empty segments of s[i..] between slashes; cur is the segment
\* being read.
SplitFrom(s, i, cur) ==
    IF i > Len(s) THEN (IF cur = <<>> THEN <<>> ELSE <<cur>>)
    ELSE IF s[i] = "/"
         THEN (IF cur = <<>> THEN <<>> ELSE <<cur>>) \o SplitFrom(s, i + 1, <<>>)
         ELSE SplitFrom(s, i + 1, Append(cur, s[i]))

Split(s) == SplitFrom(s, 1, <<>>)

RECURSIVE JoinSegs(_)
\* The segments joined by single slashes.
JoinSegs(segs) ==
    IF segs = <<>> THEN <<>>
    ELSE IF Len(segs) = 1 THEN segs[1]
    ELSE segs[1] \o Slash \o JoinSegs(Tail(segs))

RECURSIVE CleanSegs(_, _, _)
\* The lexical processing of filepath.Clean: "." is dropped, an inner ".."
\* removes the element before it, a ".." at the root is dropped, a leading
\* ".." of a relative path is kept.
CleanSegs(segs, rooted, acc) ==
    IF segs = <<>> THEN acc
    ELSE LET s == Head(segs) IN
         IF s = Dot THEN CleanSegs(Tail(segs), rooted, acc)
         ELSE IF s = DotDot
              THEN IF acc # <<>> /\ acc[Len(acc)] # DotDot
                   THEN CleanSegs(Tail(segs), rooted, SubSeq(acc, 1, Len(acc) - 1))
                   ELSE IF rooted THEN CleanSegs(Tail(segs), rooted, acc)
                   ELSE CleanSegs(Tail(segs), rooted, Append(acc, s))
              ELSE CleanSegs(Tail(segs), rooted, Append(acc, s))

\* filepath.Clean
Clean(path) ==
    LET rooted == HasSlashPrefix(path)
        out == (IF rooted THEN Slash ELSE <<>>)
               \o JoinSegs(CleanSegs(Split(path), rooted, <<>>))
    IN IF out = <<>> THEN Dot ELSE out

\* filepath.Join(a, b): the non-empty elements joined by a slash, cleaned;
\* the empty string when both are empty.
Join(a, b) ==
    IF a = <<>> /\ b = <<>> THEN <<>>
    ELSE IF a = <<>> THEN Clean(b)
    ELSE IF b = <<>> THEN Clean(a)
    ELSE Clean(a \o Slash \o b)

RECURSIVE LastSlash(_, _)
\* The index of the last slash of s[1..i], 0 when there is none.
LastSlash(s, i) ==
    IF i = 0 THEN 0 ELSE IF s[i] = "/" THEN i ELSE LastSlash(s, i - 1)

\* filepath.Dir: all but the last element, cleaned.
Dir(path) == Clean(SubSeq(path, 1, LastSlash(path, Len(path))))

RECURSIVE StripTrailingSlashes(_)
StripTrailingSlashes(s) ==
    IF s # <<>> /\ s[Len(s)] = "/"
    THEN StripTrailingSlashes(SubSeq(s, 1, Len(s) - 1))
    ELSE s

\* filepath.Base: the last element; "." for the empty path, "/" for a path
\* of slashes only.
Base(path) ==
    IF path = <<>> THEN Dot
    ELSE LET t == StripTrailingSlashes(path)
             u == SubSeq(t, LastSlash(t, Len(t)) + 1, Len(t))
         IN IF u = <<>> THEN Slash ELSE u

RECURSIVE CommonPrefixLen(_, _)
CommonPrefixLen(xs, ys) ==
    IF xs = <<>> \/ ys = <<>> \/ Head(xs) # Head(ys) THEN 0
    ELSE 1 + CommonPrefixLen(Tail(xs), Tail(ys))

\* filepath.Rel(base, targ) for two paths that are both rooted or both
\* relative: ".." for every element of base past the common prefix, then
\* the rest of targ; "." when the two are the same path.
Rel(base, targ) ==
    LET bs == Split(IF Clean(base) = Dot THEN <<>> ELSE Clean(base))
        ts == Split(IF Clean(targ) = Dot THEN <<>> ELSE Clean(targ))
        k == CommonPrefixLen(bs, ts)
        out == JoinSegs([i \in 1..(Len(bs) - k) |-> DotDot]
                        \o SubSeq(ts, k + 1, Len(ts)))
    IN IF out = <<>> THEN Dot ELSE out

(* --------------------------- host filesystem -------------------------- *)

\* Byte order of the characters (their ASCII codes).
CharOrd(c) == CASE c = "." -> 46 [] c = "/" -> 47 [] c = "a" -> 97 [] c = "p" -> 112

RECURSIVE LexLess(_, _)
\* s sorts strictly before t, byte by byte.
LexLess(s, t) ==
    IF t = <<>> THEN FALSE
    ELSE IF s = <<>> THEN TRUE
    ELSE IF Head(s) = Head(t) THEN LexLess(Tail(s), Tail(t))
    ELSE CharOrd(Head(s)) < CharOrd(Head(t))

RECURSIVE SortNames(_)
\* The names of S in lexical order, as os.ReadDir / Walk report them.
SortNames(S) ==
    IF S = {} THEN <<>>
    ELSE LET m == CHOOSE n \in S : \A o \in S \ {n} : LexLess(n, o)
         IN <<m>> \o SortNames(S \ {m})

DirNode == [isDir |-> TRUE, content |-> <<>>]
FileNode(c) == [isDir |-> FALSE, content |-> c]

\* The working directory of the server process.
HostCwd == <<"/", "a">>

\* The host's files: /a/a, /a/p/a and the directories above them.
HostFS ==
    (<<"/">> :> DirNode)
    @@ (<<"/", "a">> :> DirNode)
    @@ (<<"/", "a", "/", "a">> :> FileNode(<<"x">>))
    @@ (<<"/", "a", "/", "p">> :> DirNode)
    @@ (<<"/", "a", "/", "p", "/", "a">> :> FileNode(<<"y", "y">>))

\* The absolute path the kernel resolves a path to.
Abs(path) == IF HasSlashPrefix(path) THEN Clean(path) ELSE Join(HostCwd, path)

\* os.Stat succeeds on the paths that exist.
StatOk(path) == Abs(path) \in DOMAIN HostFS
Stat(path) == HostFS[Abs(path)]

\* The names in a directory, sorted.
ReadDirNames(path) ==
    SortNames({Base(n) : n \in {m \in DOMAIN HostFS : m # Abs(path) /\ Dir(m) = Abs(path)}})

RECURSIVE Concat(_)
Concat(seqs) == IF seqs = <<>> THEN <<>> ELSE Head(seqs) \o Concat(Tail(seqs))

RECURSIVE Walk(_)
\* filepath.Walk: the root, then every directory's entries in lexical
\* order, each named by Join(directory, name).
Walk(path) ==
    LET fi == Stat(path)
        names == ReadDirNames(path)
    IN <<[file |-> path, fi |-> fi]>>
       \o (IF fi.isDir
           THEN Concat([i \in 1..Len(names) |-> Walk(Join(path, names[i]))])
           ELSE <<>>)

(* ------------------------------ archiver ------------------------------ *)

\* header.Name of an entry (variant 1).
HeaderName(baseDir, relPath, copyContentsOnly) ==
    IF copyContentsOnly THEN relPath ELSE Join(baseDir, relPath)

\* Faulty variant: the header is written and the bytes of the file are not.
TarEntryNoContent(name, fi) ==
    [name |-> name, isDir |-> fi.isDir, content |-> <<>>]

\* The tar entry written for a visited file: header, then the bytes of a
\* regular file.
TarEntry(name, fi) ==
    [name |-> name, isDir |-> fi.isDir,
     content |-> IF fi.isDir THEN <<>> ELSE fi.content]

RECURSIVE WalkFn(_, _, _, _)
\* The walk callback of createTarArchive applied to the visited files in
\* order: the root (relative path ".") is skipped.
WalkFn(visited, srcPath, baseDir, copyContentsOnly) ==
    IF visited = <<>> THEN <<>>
    ELSE LET v == Head(visited)
             relPath == Rel(srcPath, v.file)
             rest == WalkFn(Tail(visited), srcPath, baseDir, copyContentsOnly)
         IN IF relPath = Dot THEN rest
            ELSE <<TarEntry(HeaderName(baseDir, relPath, copyContentsOnly), v.fi)>> \o rest

\* createTarArchive of variant 1.
createTarArchive(srcPath, copyContentsOnly) ==
    LET src == Clean(srcPath)
    IN WalkFn(Walk(src), src, Base(src), copyContentsOnly)

\* createTarArchive of variant 2: every entry is named baseDir/relPath.
createTarArchive2(srcPath) ==
    LET src == Clean(srcPath)
    IN WalkFn(Walk(src), src, Base(src), FALSE)

(* --------------------------- argument resolver ------------------------ *)

\* A tool argument: ok is the result of the string type assertion.
Absent == [ok |-> FALSE, val |-> <<>>]
Given(s) == [ok |-> TRUE, val |-> s]

\* Faulty variant: the empty string passes for a container ID.
ContainerIDMissingNoEmpty(arg) == ~arg.ok

\* `!ok || containerID == ""`
ContainerIDMissing(arg) == ~arg.ok \/ arg.val = <<>>

\* `!ok || localSrcDir == ""`
LocalSrcDirMissing(arg) == ~arg.ok \/ arg.val = <<>>

\* Faulty variant: a relative dest_dir is used as it is.
ResolveDest1NoJoin(arg) ==
    IF ~arg.ok \/ arg.val = <<>> \/ arg.val = Dot
    THEN [destDir |-> AppDir, copyToHomeDir |-> TRUE]
    ELSE [destDir |-> arg.val, copyToHomeDir |-> FALSE]

\* Destination resolution of variant 1.
ResolveDest1(arg) ==
    IF ~arg.ok \/ arg.val = <<>> \/ arg.val = Dot
    THEN [destDir |-> AppDir, copyToHomeDir |-> TRUE]
    ELSE [destDir |-> IF ~HasSlashPrefix(arg.val) THEN Join(AppDir, arg.val) ELSE arg.val,
          copyToHomeDir |-> FALSE]

\* Destination resolution of variant 2, which has no contents-only mode.
ResolveDest2(arg, srcDir) ==
    IF ~arg.ok \/ arg.val = <<>>
    THEN [destDir |-> Join(AppDir, Base(srcDir)), copyToHomeDir |-> FALSE]
    ELSE [destDir |-> IF ~HasSlashPrefix(arg.val) THEN Join(AppDir, arg.val) ELSE arg.val,
          copyToHomeDir |-> FALSE]

\* The path handed to copyToContainer in variant 1.
TargetPath1(dest, contentsOnly) == IF contentsOnly THEN dest ELSE Dir(dest)

\* The path handed to copyToContainer in variant 2.
TargetPath2(dest) == Dir(dest)

(* ------------------------- container runtime -------------------------- *)

\* The containers the runtime knows.
Containers == {<<"a">>}

\* The container's directories before the call.
ContainerFS0 == (<<"/">> :> DirNode) @@ (AppDir :> DirNode)

RECURSIVE Ancestors(_)
\* The directories above an absolute path.
Ancestors(path) ==
    IF path = Slash THEN {} ELSE {Dir(path)} \cup Ancestors(Dir(path))

\* The directories `mkdir -p path` leaves behind.
MkdirAll(fs, path) ==
    LET new == ({Clean(path)} \cup Ancestors(Clean(path))) \ DOMAIN fs
    IN fs @@ [d \in new |-> DirNode]

RECURSIVE Extract(_, _, _)
\* The runtime's extraction of an archive at destPath: every entry lands at
\* destPath joined with its recorded name, over what is there; missing
\* parents of an entry are created.
Extract(fs, destPath, archive) ==
    IF archive = <<>> THEN fs
    ELSE LET e == Head(archive)
             at == Join(destPath, e.name)
             node == [isDir |-> e.isDir, content |-> e.content]
         IN Extract((at :> node) @@ MkdirAll(fs, Dir(at)), destPath, Tail(archive))

(* ------------------------------- state -------------------------------- *)

VARIABLES
    variant,        \* which of the two variants of the file is built
    args,           \* request.Params.Arguments
    pc,             \* the position of the invocation
    containerID, localSrcDir, destDir, copyToHomeDir,
    tarBuffer, targetPath,   \* locals of CopyProject
    result,         \* the *mcp.CallToolResult returned
    retErr,         \* the error value returned with it
    log,            \* the filesystem and runtime calls made, in order
    openConns,      \* the runtime clients created and not closed
    attachOpen,     \* the attached exec stream is open
    cFS,            \* the container's filesystem
    sess,           \* the exec session: "none", "created", "running", "exited"
    exitCode,       \* the exit code the runtime reports for the session
    pipe,           \* the attached stream: written by the command, not yet read
    produced,       \* every token the command wrote to the attached stream
    cmdOut, cmdErr, \* the bytes the command wrote to its stdout and stderr
    chunk,          \* the bytes io.Copy has read and not yet written
    stdoutBuf, stderrBuf,    \* the buffers of executeCommand
    execRet,        \* what executeCommand returned
    readObs         \* what the stream looked like when the buffers were read

vars == <<variant, args, pc, containerID, localSrcDir, destDir, copyToHomeDir,
          tarBuffer, targetPath, result, retErr, log, openConns, attachOpen,
          cFS, sess, exitCode, pipe, produced, cmdOut, cmdErr, chunk,
          stdoutBuf, stderrBuf, execRet, readObs>>

copyVars == <<containerID, localSrcDir, destDir, copyToHomeDir, tarBuffer, targetPath>>
execVars == <<sess, exitCode, pipe, produced, cmdOut, cmdErr, chunk,
              stdoutBuf, stderrBuf, readObs>>

(* ------------------------------ bounds -------------------------------- *)

\* The longest dest_dir argument tried.
MaxDestLen == 3
\* The most frames the command writes to its output streams.
MaxOut == 1

\* The exit codes a command ends with.
ExitCodes == {0, 3}

ContainerIDArgs == {Absent, Given(<<>>), Given(<<"a">>), Given(<<"p">>)}

LocalSrcDirArgs ==
    {Absent, Given(<<>>), Given(<<"/", "a">>), Given(<<"/", "a", "/">>),
     Given(<<"/", "a", "/", "a">>), Given(<<"/", "p">>), Given(Dot), Given(Slash)}

DestDirArgs == {Absent} \cup {Given(s) : s \in StringsUpTo(Chars, MaxDestLen)}

NoResult == [msg |-> "none"]
Pending == [kind |-> "pending"]
NoObs == [read |-> FALSE]

Init ==
    /\ variant \in {1, 2}
    /\ args \in [container_id : ContainerIDArgs,
                 local_src_dir : LocalSrcDirArgs,
                 dest_dir : DestDirArgs]
    /\ pc = "CheckArgs"
    /\ containerID = <<>> /\ localSrcDir = <<>> /\ destDir = <<>>
    /\ copyToHomeDir = FALSE /\ tarBuffer = <<>> /\ targetPath = <<>>
    /\ result = NoResult /\ retErr = "unset"
    /\ log = <<>>
    /\ openConns = {} /\ attachOpen = FALSE
    /\ cFS = ContainerFS0
    /\ sess = "none" /\ exitCode = 0
    /\ pipe = <<>> /\ produced = <<>> /\ cmdOut = <<>> /\ cmdErr = <<>>
    /\ chunk = <<>> /\ stdoutBuf = <<>> /\ stderrBuf = <<>>
    /\ execRet = Pending /\ readObs = NoObs

(* ----------------------------- CopyProject ---------------------------- *)

\* Faulty variant: the failure is returned as the error value.
ReturnErr(r) ==
    /\ result' = r
    /\ retErr' = IF r.msg = "Successfully copied" THEN "nil" ELSE "error"
    /\ pc' = "done"

\* `return mcp.NewToolResultText(...), nil`
Return(r) ==
    /\ result' = r
    /\ retErr' = "nil"
    /\ pc' = "done"

\* Faulty variant: the client is not closed.
CloseClientLeak(conns, c) == conns

\* `defer cli.Close()` running at the return of the function that owns c.
CloseClient(conns, c) == conns \ {c}

\* `defer attach.Close()` running at the return of executeCommand.
CloseAttach(open) == FALSE

Logged(op, ok) == Append(log, [op |-> op, ok |-> ok])

\* The required arguments are extracted and checked.
CheckArgs ==
    /\ pc = "CheckArgs"
    /\ IF ContainerIDMissing(args.container_id)
       THEN /\ Return([msg |-> "container_id is required"])
            /\ UNCHANGED <<containerID, localSrcDir>>
       ELSE IF LocalSrcDirMissing(args.local_src_dir)
       THEN /\ Return([msg |-> "local_src_dir is required"])
            /\ containerID' = args.container_id.val
            /\ UNCHANGED localSrcDir
       ELSE /\ containerID' = args.container_id.val
            /\ localSrcDir' = args.local_src_dir.val
            /\ pc' = "StatSource"
            /\ UNCHANGED <<result, retErr>>
    /\ UNCHANGED <<variant, args, destDir, copyToHomeDir, tarBuffer, targetPath,
                   log, openConns, attachOpen, cFS, execRet>>
    /\ UNCHANGED execVars

\* The source path is cleaned and must name a directory.
StatSource ==
    /\ pc = "StatSource"
    /\ LET src == Clean(localSrcDir) IN
       /\ localSrcDir' = src
       /\ log' = Logged("Stat", StatOk(src))
       /\ IF ~StatOk(src)
          THEN Return([msg |-> "Error accessing source directory"])
          ELSE IF ~Stat(src).isDir
          THEN Return([msg |-> "local_src_dir must be a directory"])
          ELSE /\ pc' = "ResolveDest"
               /\ UNCHANGED <<result, retErr>>
    /\ UNCHANGED <<variant, args, containerID, destDir, copyToHomeDir, tarBuffer,
                   targetPath, openConns, attachOpen, cFS, execRet>>
    /\ UNCHANGED execVars

\* The destination inside the container is resolved.
ResolveDest ==
    /\ pc = "ResolveDest"
    /\ LET r == IF variant = 1 THEN ResolveDest1(args.dest_dir)
                ELSE ResolveDest2(args.dest_dir, localSrcDir) IN
       /\ destDir' = r.destDir
       /\ copyToHomeDir' = r.copyToHomeDir
    /\ pc' = "CreateArchive"
    /\ UNCHANGED <<variant, args, containerID, localSrcDir, tarBuffer, targetPath,
                   result, retErr, log, openConns, attachOpen, cFS, execRet>>
    /\ UNCHANGED execVars

\* The archive is built; a read or stat failure during the walk aborts it.
CreateArchive ==
    /\ pc = "CreateArchive"
    /\ \E ioOk \in BOOLEAN :
        /\ log' = Logged("Walk", ioOk)
        /\ IF ~ioOk
           THEN /\ Return([msg |-> "Error creating tar archive"])
                /\ UNCHANGED <<tarBuffer, targetPath>>
           ELSE /\ tarBuffer' = IF variant = 1
                                THEN createTarArchive(localSrcDir, copyToHomeDir)
                                ELSE createTarArchive2(localSrcDir)
                /\ targetPath' = IF variant = 1
                                 THEN TargetPath1(destDir, copyToHomeDir)
                                 ELSE TargetPath2(destDir)
                /\ pc' = "NewClient"
                /\ UNCHANGED <<result, retErr>>
    /\ UNCHANGED <<variant, args, containerID, localSrcDir, destDir, copyToHomeDir,
                   openConns, attachOpen, cFS, execRet>>
    /\ UNCHANGED execVars

\* copyToContainer: the runtime client is created.
NewClient ==
    /\ pc = "NewClient"
    /\ \E ok \in BOOLEAN :
        /\ log' = Logged("NewClient", ok)
        /\ IF ~ok
           THEN /\ Return([msg |-> "Error copying to container",
                           cause |-> "failed to create Docker client"])
                /\ UNCHANGED openConns
           ELSE /\ openConns' = openConns \cup {"copyToContainer"}
                /\ pc' = "Inspect"
                /\ UNCHANGED <<result, retErr>>
    /\ UNCHANGED <<variant, args, attachOpen, cFS, execRet>>
    /\ UNCHANGED copyVars
    /\ UNCHANGED execVars

\* copyToContainer: the container is inspected.
Inspect ==
    /\ pc = "Inspect"
    /\ \E ok \in {b \in BOOLEAN : b => containerID \in Containers} :
        /\ log' = Logged("ContainerInspect", ok)
        /\ IF ~ok
           THEN /\ Return([msg |-> "Error copying to container",
                           cause |-> "failed to inspect container"])
                /\ openConns' = CloseClient(openConns, "copyToContainer")
           ELSE /\ pc' = IF variant = 1 THEN "Copy" ELSE "ExecNewClient"
                /\ UNCHANGED <<result, retErr, openConns>>
    /\ UNCHANGED <<variant, args, attachOpen, cFS, execRet>>
    /\ UNCHANGED copyVars
    /\ UNCHANGED execVars

\* copyToContainer: the archive is sent for extraction at targetPath, and
\* CopyProject returns.
Copy ==
    /\ pc = "Copy"
    /\ \E ok \in BOOLEAN :
        /\ log' = Append(log, [op |-> "CopyToContainer", ok |-> ok,
                               existed |-> targetPath \in DOMAIN cFS])
        /\ IF ~ok
           THEN /\ Return([msg |-> "Error copying to container",
                           cause |-> "failed to copy to container"])
                /\ UNCHANGED cFS
           ELSE /\ cFS' = Extract(MkdirAll(cFS, targetPath), targetPath, tarBuffer)
                /\ Return([msg |-> "Successfully copied", src |-> localSrcDir,
                           dest |-> destDir, cid |-> containerID])
    /\ openConns' = CloseClient(openConns, "copyToContainer")
    /\ UNCHANGED <<variant, args, attachOpen, execRet>>
    /\ UNCHANGED copyVars
    /\ UNCHANGED execVars

(* ---------------------------- executeCommand -------------------------- *)

Err(msg) == [kind |-> "error", msg |-> msg]

\* executeCommand fails with err: copyToContainer wraps the error and
\* returns it, and CopyProject returns its text.
ExecFails(err) ==
    /\ execRet' = err
    /\ Return([msg |-> "Error copying to container",
               cause |-> "failed to create destination directory",
               inner |-> err])

\* The header the runtime puts before a frame of the attached stream: the
\* session has no TTY, so stdout (1) and stderr (2) share the stream.
FrameHeader(stream) == IF stream = 1 THEN "H1" ELSE "H2"

\* Faulty variant: the exit code is not looked at.
PollOutcomeAnyCode(running, code, errS, outS) ==
    IF running THEN [kind |-> "continue"] ELSE [kind |-> "nil"]

\* Faulty variant: the loop ends at the first status report.
PollOutcomeNoWait(running, code, errS, outS) ==
    IF code # 0
    THEN [kind |-> "error", msg |-> "command exited with code",
          exitCode |-> code,
          output |-> IF errS = <<>> THEN outS ELSE errS]
    ELSE [kind |-> "nil"]

\* What the poll loop does with one status report: keep polling, fail with
\* the exit code and the output, or return nil.
PollOutcome(running, code, errS, outS) ==
    IF running THEN [kind |-> "continue"]
    ELSE IF code # 0
         THEN [kind |-> "error", msg |-> "command exited with code",
               exitCode |-> code,
               output |-> IF errS = <<>> THEN outS ELSE errS]
         ELSE [kind |-> "nil"]

\* The values a read of a bytes.Buffer can give while another goroutine is
\* in the middle of a Write to it (a data race): without or with the bytes
\* being written.
RacyRead(buf, inFlight) ==
    IF inFlight = <<>> THEN {buf} ELSE {buf, buf \o inFlight}

\* executeCommand creates its own runtime client.
ExecNewClient ==
    /\ pc = "ExecNewClient"
    /\ \E ok \in BOOLEAN :
        IF ~ok
        THEN /\ ExecFails(Err("failed to create Docker client"))
             /\ log' = Logged("ExecNewClient", FALSE)
             /\ openConns' = CloseClient(openConns, "copyToContainer")
        ELSE /\ openConns' = openConns \cup {"executeCommand"}
             /\ log' = Logged("ExecNewClient", TRUE)
             /\ pc' = "ExecCreate"
             /\ UNCHANGED <<result, retErr, execRet>>
    /\ UNCHANGED <<variant, args, attachOpen, cFS>>
    /\ UNCHANGED copyVars
    /\ UNCHANGED execVars

\* The exec session for `mkdir -p targetPath` is created.
ExecCreate ==
    /\ pc = "ExecCreate"
    /\ \E ok \in BOOLEAN :
        IF ~ok
        THEN /\ ExecFails(Err("failed to create exec"))
             /\ log' = Logged("ExecCreate", FALSE)
             /\ openConns' = CloseClient(CloseClient(openConns, "executeCommand"),
                                         "copyToContainer")
             /\ UNCHANGED sess
        ELSE /\ sess' = "created"
             /\ log' = Logged("ExecCreate", TRUE)
             /\ pc' = "ExecAttach"
             /\ UNCHANGED <<result, retErr, execRet, openConns>>
    /\ UNCHANGED <<variant, args, attachOpen, cFS>>
    /\ UNCHANGED copyVars
    /\ UNCHANGED <<exitCode, pipe, produced, cmdOut, cmdErr, chunk,
                   stdoutBuf, stderrBuf, readObs>>

\* The session is started with its output attached, and the background
\* copy of the stream into the stdout buffer is started.
ExecAttach ==
    /\ pc = "ExecAttach"
    /\ \E ok \in BOOLEAN :
        IF ~ok
        THEN /\ ExecFails(Err("failed to attach to exec"))
             /\ log' = Logged("ExecAttach", FALSE)
             /\ openConns' = CloseClient(CloseClient(openConns, "executeCommand"),
                                         "copyToContainer")
             /\ UNCHANGED <<sess, attachOpen>>
        ELSE /\ sess' = "running"
             /\ attachOpen' = TRUE
             /\ log' = Logged("ExecAttach", TRUE)
             /\ pc' = "ExecPoll"
             /\ UNCHANGED <<result, retErr, execRet, openConns>>
    /\ UNCHANGED <<variant, args, cFS>>
    /\ UNCHANGED copyVars
    /\ UNCHANGED <<exitCode, pipe, produced, cmdOut, cmdErr, chunk,
                   stdoutBuf, stderrBuf, readObs>>

\* One iteration of the poll loop: the status call, and what follows from
\* its report.
ExecPoll ==
    /\ pc = "ExecPoll"
    /\ \/ \* the status call fails
          /\ ExecFails(Err("failed to inspect exec"))
          /\ log' = Logged("executeCommand", FALSE)
          /\ openConns' = CloseClient(CloseClient(openConns, "executeCommand"),
                                      "copyToContainer")
          /\ attachOpen' = CloseAttach(attachOpen)
          /\ UNCHANGED readObs
       \/ \* the session is still running
          /\ PollOutcome(sess = "running", exitCode, stderrBuf, stdoutBuf).kind = "continue"
          /\ pc' = "ExecSleep"
          /\ UNCHANGED <<result, retErr, execRet, log, openConns, attachOpen, readObs>>
       \/ \* the command exited with a non-zero code: the buffers are read
          \E errS \in RacyRead(stderrBuf, <<>>), outS \in RacyRead(stdoutBuf, chunk) :
            LET o == PollOutcome(sess = "running", exitCode, errS, outS) IN
            /\ o.kind = "error"
            /\ ExecFails(o)
            /\ log' = Logged("executeCommand", FALSE)
            /\ readObs' = [read |-> TRUE, produced |-> produced,
                           drained |-> stdoutBuf, writing |-> chunk # <<>>]
            /\ openConns' = CloseClient(CloseClient(openConns, "executeCommand"),
                                        "copyToContainer")
            /\ attachOpen' = CloseAttach(attachOpen)
       \/ \* the command exited with code 0
          /\ PollOutcome(sess = "running", exitCode, stderrBuf, stdoutBuf).kind = "nil"
          /\ execRet' = [kind |-> "nil"]
          /\ log' = Logged("executeCommand", TRUE)
          /\ openConns' = CloseClient(openConns, "executeCommand")
          /\ attachOpen' = CloseAttach(attachOpen)
          /\ pc' = "Copy"
          /\ UNCHANGED <<result, retErr, readObs>>
    /\ UNCHANGED <<variant, args, cFS>>
    /\ UNCHANGED copyVars
    /\ UNCHANGED <<sess, exitCode, pipe, produced, cmdOut, cmdErr, chunk,
                   stdoutBuf, stderrBuf>>

\* `time.Sleep(100 * time.Millisecond)` ends and the loop polls again.
ExecSleep ==
    /\ pc = "ExecSleep"
    /\ pc' = "ExecPoll"
    /\ UNCHANGED <<variant, args, result, retErr, log, openConns, attachOpen,
                   cFS, execRet>>
    /\ UNCHANGED copyVars
    /\ UNCHANGED execVars

\* The background goroutine: io.Copy reads what is on the attached stream.
DrainRead ==
    /\ pc \in {"ExecPoll", "ExecSleep"}
    /\ attachOpen
    /\ chunk = <<>>
    /\ pipe # <<>>
    /\ chunk' = pipe
    /\ pipe' = <<>>
    /\ UNCHANGED <<variant, args, pc, result, retErr, log, openConns, attachOpen,
                   cFS, execRet>>
    /\ UNCHANGED copyVars
    /\ UNCHANGED <<sess, exitCode, produced, cmdOut, cmdErr, stdoutBuf, stderrBuf, readObs>>

\* The background goroutine: io.Copy writes what it read to the stdout
\* buffer.
DrainWrite ==
    /\ pc \in {"ExecPoll", "ExecSleep"}
    /\ chunk # <<>>
    /\ stdoutBuf' = stdoutBuf \o chunk
    /\ chunk' = <<>>
    /\ UNCHANGED <<variant, args, pc, result, retErr, log, openConns, attachOpen,
                   cFS, execRet>>
    /\ UNCHANGED copyVars
    /\ UNCHANGED <<sess, exitCode, pipe, produced, cmdOut, cmdErr, stderrBuf, readObs>>

(* ------------------------ the command in the container ---------------- *)

\* The command writes a byte to its stdout (1) or stderr (2); the runtime
\* frames it onto the attached stream.
CmdWrite ==
    /\ sess = "running"
    /\ attachOpen
    /\ Len(cmdOut) + Len(cmdErr) < MaxOut
    /\ \E stream \in {1, 2} :
        LET b == IF stream = 1 THEN "o" ELSE "e" IN
        /\ pipe' = pipe \o <<FrameHeader(stream), b>>
        /\ produced' = produced \o <<FrameHeader(stream), b>>
        /\ cmdOut' = IF stream = 1 THEN Append(cmdOut, b) ELSE cmdOut
        /\ cmdErr' = IF stream = 2 THEN Append(cmdErr, b) ELSE cmdErr
    /\ UNCHANGED <<variant, args, pc, result, retErr, log, openConns, attachOpen,
                   cFS, execRet>>
    /\ UNCHANGED copyVars
    /\ UNCHANGED <<sess, exitCode, chunk, stdoutBuf, stderrBuf, readObs>>

\* The command ends; `mkdir -p` that ends with code 0 has made the
\* directory.
CmdExit ==
    /\ sess = "running"
    /\ \E code \in ExitCodes :
        /\ exitCode' = code
        /\ cFS' = IF code = 0 THEN MkdirAll(cFS, targetPath) ELSE cFS
    /\ sess' = "exited"
    /\ UNCHANGED <<variant, args, pc, result, retErr, log, openConns, attachOpen,
                   execRet>>
    /\ UNCHANGED copyVars
    /\ UNCHANGED <<pipe, produced, cmdOut, cmdErr, chunk, stdoutBuf, stderrBuf, readObs>>

(* --------------------------- specifications --------------------------- *)

Next ==
    \/ CheckArgs
    \/ StatSource
    \/ ResolveDest
    \/ CreateArchive
    \/ NewClient
    \/ Inspect
    \/ ExecNewClient
    \/ ExecCreate
    \/ ExecAttach
    \/ ExecPoll
    \/ ExecSleep
    \/ DrainRead
    \/ DrainWrite
    \/ CmdWrite
    \/ CmdExit
    \/ Copy

Spec == Init /\ [][Next]_vars

\* The scenarios of the command runner: the valid requests of variant 2
\* with dest_dir left out or of one character.
InitExec ==
    /\ Init
    /\ variant = 2
    /\ args.container_id = Given(<<"a">>)
    /\ args.local_src_dir = Given(<<"/", "a">>)
    /\ Len(args.dest_dir.val) <= 1

\* The invocation's own thread always runs: a poll that is due is made and
\* a sleep ends.
FairSpec ==
    InitExec /\ [][Next]_vars /\ WF_vars(ExecPoll) /\ WF_vars(ExecSleep)

(* ------------------------------ properties ---------------------------- *)

Did(op) == \E i \in 1..Len(log) : log[i].op = op
DidOk(op) == \E i \in 1..Len(log) : log[i].op = op /\ log[i].ok

\* The arguments as the request gives them.
SrcArg == args.local_src_dir
CidMissing == ~args.container_id.ok \/ args.container_id.val = <<>>
SrcMissing == ~SrcArg.ok \/ SrcArg.val = <<>>
SrcExists == SrcArg.ok /\ SrcArg.val # <<>> /\ Abs(SrcArg.val) \in DOMAIN HostFS
SrcIsDirectory == SrcExists /\ HostFS[Abs(SrcArg.val)].isDir
ArgsValid == ~CidMissing /\ SrcIsDirectory

Success ==
    /\ result.msg = "Successfully copied"
    /\ result.src = Clean(SrcArg.val)
    /\ result.dest = destDir
    /\ result.cid = args.container_id.val

\* The text of the first stage that failed.
FirstFailureText ==
    IF CidMissing THEN "container_id is required"
    ELSE IF SrcMissing THEN "local_src_dir is required"
    ELSE IF ~SrcExists THEN "Error accessing source directory"
    ELSE IF ~SrcIsDirectory THEN "local_src_dir must be a directory"
    ELSE IF log[Len(log)].op = "Walk" THEN "Error creating tar archive"
    ELSE "Error copying to container"

\* C1: every invocation ends with a text result and a nil error; the text is
\* the success text exactly when validation, the archive, the inspect and
\* the copy call all succeeded, and otherwise it is the text of the first
\* failing stage, which is the last thing the invocation did.
C1_TwoOutcomes ==
    pc = "done" =>
        /\ retErr = "nil"
        /\ Success <=> (ArgsValid /\ DidOk("Walk") /\ DidOk("ContainerInspect")
                        /\ DidOk("CopyToContainer"))
        /\ ~Success =>
            /\ result.msg = FirstFailureText
            /\ \A i \in 1..(Len(log) - 1) : log[i].ok
            /\ ArgsValid => (log # <<>> /\ ~log[Len(log)].ok)

C1_Witness ==
    /\ pc = "done"
    /\ result.msg = "Error copying to container"
    /\ DidOk("Walk")
    /\ Did("ContainerInspect") /\ ~DidOk("ContainerInspect")

\* C2: a missing or empty container_id fails before any filesystem access,
\* and a local_src_dir that is empty, missing or no directory fails without
\* an archive and without any runtime client, inspect, exec or copy call.
C2_ValidationFirst ==
    /\ CidMissing => log = <<>>
    /\ (~CidMissing /\ SrcMissing) => log = <<>>
    /\ ~ArgsValid =>
        /\ \A i \in 1..Len(log) : log[i].op = "Stat"
        /\ tarBuffer = <<>>
        /\ openConns = {}
        /\ cFS = ContainerFS0
        /\ pc \in {"CheckArgs", "StatSource", "done"}
        /\ pc = "done" => result.msg \in {"container_id is required",
                                          "local_src_dir is required",
                                          "Error accessing source directory",
                                          "local_src_dir must be a directory"}

C2_Witness ==
    /\ pc = "done"
    /\ ~CidMissing
    /\ SrcArg = Given(<<"/", "a", "/", "a">>)
    /\ log = <<[op |-> "Stat", ok |-> TRUE]>>
    /\ result.msg = "local_src_dir must be a directory"

\* The nodes of the source tree below its root, by their relative paths.
SourceNodes(src) == {n \in DOMAIN HostFS : Abs(src) \in Ancestors(n)}

\* C3: after a successful CopyProject every source entry with relative path
\* p is in the container at destDir/p, destDir being the destination the
\* success text names.
C3_LandsAtDest ==
    (pc = "done" /\ Success) =>
        \A n \in SourceNodes(localSrcDir) :
            LET at == Join(result.dest, Rel(Abs(localSrcDir), n)) IN
            /\ at \in DOMAIN cFS
            /\ cFS[at] = HostFS[n]

\* The destination has been resolved.
Resolved == pc \notin {"CheckArgs", "StatSource", "ResolveDest"} /\ Did("Stat") /\ ArgsValid
DestArg == args.dest_dir
DestUnset == ~DestArg.ok \/ DestArg.val = <<>>

\* C4 as stated: the resolved destination is absolute; an absent or empty
\* dest_dir gives /app with contents-only copy, and only then; a relative
\* one is joined to /app; an absolute one is used unchanged.
C4_AsStated ==
    Resolved =>
        /\ HasSlashPrefix(destDir)
        /\ DestUnset => destDir = AppDir
        /\ copyToHomeDir <=> DestUnset
        /\ (~DestUnset /\ ~HasSlashPrefix(DestArg.val)) => destDir = Join(AppDir, DestArg.val)
        /\ (~DestUnset /\ HasSlashPrefix(DestArg.val)) => destDir = DestArg.val

\* C4 amended: the resolved destination is absolute; a relative dest_dir is
\* joined to /app and an absolute one is used unchanged; in variant 1 the
\* copy is contents-only exactly when dest_dir is absent, empty or ".", and
\* the destination is then /app; in variant 2 an absent or empty dest_dir
\* gives /app joined with the source's base name and the copy is never
\* contents-only.
C4_Resolution ==
    Resolved =>
        /\ HasSlashPrefix(destDir)
        /\ (~DestUnset /\ ~HasSlashPrefix(DestArg.val)) => destDir = Join(AppDir, DestArg.val)
        /\ (~DestUnset /\ HasSlashPrefix(DestArg.val)) => destDir = DestArg.val
        /\ variant = 1 =>
            /\ copyToHomeDir <=> (DestUnset \/ DestArg.val = Dot)
            /\ copyToHomeDir => destDir = AppDir
        /\ variant = 2 =>
            /\ ~copyToHomeDir
            /\ DestUnset => destDir = Join(AppDir, Base(Clean(SrcArg.val)))

C4_Witness ==
    /\ Resolved
    /\ variant = 1
    /\ DestArg = Given(Dot)
    /\ copyToHomeDir
    /\ destDir = AppDir

\* The archive has been built.
Archived == DidOk("Walk")
Nested == ~(variant = 1 /\ copyToHomeDir)
\* An entry's path with the base name taken off in nested mode.
EntryRel(e) == IF Nested THEN Rel(Base(localSrcDir), e.name) ELSE e.name

\* C5: the archive has exactly one entry per node of the source tree other
\* than the root; the entry paths, relative to the base name in nested
\* mode, are the relative paths of the tree; the root is no entry; a
\* regular file's entry has the file's bytes and a directory's has none.
C5_ArchiveRoundTrip ==
    Archived =>
        LET nodes == SourceNodes(localSrcDir)
            root == Abs(localSrcDir) IN
        /\ Len(tarBuffer) = Cardinality(nodes)
        /\ {EntryRel(tarBuffer[i]) : i \in 1..Len(tarBuffer)} = {Rel(root, n) : n \in nodes}
        /\ \A i \in 1..Len(tarBuffer) :
            LET e == tarBuffer[i]
                n == Join(root, EntryRel(e)) IN
            /\ EntryRel(e) # Dot
            /\ e.name # Dot
            /\ n \in nodes
            /\ e.isDir = HostFS[n].isDir
            /\ e.content = (IF HostFS[n].isDir THEN <<>> ELSE HostFS[n].content)

C5_Witness ==
    /\ Archived
    /\ Nested
    /\ localSrcDir = <<"/", "a">>
    /\ Len(tarBuffer) = 3
    /\ \E i \in 1..Len(tarBuffer) :
        tarBuffer[i].name = <<"a", "/", "p", "/", "a">> /\ tarBuffer[i].content = <<"y", "y">>

\* executeCommand returned after a status report of not-running.
CommandFailed == execRet.kind = "error" /\ execRet.msg = "command exited with code"

\* C6: once the session is seen not running, executeCommand returns nil
\* exactly when the exit code is 0, and otherwise fails with that exit code
\* and the command's output: its stderr if it wrote any, else its stdout.
C6_ExitOutcome ==
    /\ execRet.kind = "nil" => (sess = "exited" /\ exitCode = 0)
    /\ CommandFailed =>
        /\ sess = "exited" /\ exitCode # 0
        /\ execRet.exitCode = exitCode
        /\ execRet.output = IF cmdErr # <<>> THEN cmdErr ELSE cmdOut

\* C7: when the poll loop reads the output buffer, the background copy has
\* put every byte the command produced into it and is not writing to it.
C7_OutputNotLost ==
    readObs.read =>
        /\ readObs.drained = readObs.produced
        /\ ~readObs.writing

\* C8: no runtime client and no attached stream stays open past the return
\* of the function that opened it, nor past the return of CopyProject.
C8_ConnectionsReleased ==
    /\ execRet.kind # "pending" => ("executeCommand" \notin openConns /\ ~attachOpen)
    /\ pc \in {"CheckArgs", "StatSource", "ResolveDest", "CreateArchive", "NewClient"}
        => openConns = {}
    /\ pc = "done" => (openConns = {} /\ ~attachOpen)

C8_Witness ==
    /\ pc = "done"
    /\ CommandFailed
    /\ DidOk("ExecAttach")
    /\ openConns = {}

\* The place of the copy call in the log.
CopyCalls == {i \in 1..Len(log) : log[i].op = "CopyToContainer"}
Before(i, op, ok) == \E j \in 1..(i - 1) : log[j].op = op /\ log[j].ok = ok

\* The order of the calls of copyToContainer: the copy call comes after a
\* successful inspect and, in variant 2, after `mkdir -p` ended with code
\* 0; a failed inspect or a failed directory creation is the last call.
C9_Order ==
    /\ \A i \in CopyCalls :
        /\ Before(i, "ContainerInspect", TRUE)
        /\ variant = 2 =>
            /\ Before(i, "executeCommand", TRUE)
            /\ sess = "exited" /\ exitCode = 0
    /\ \A i \in 1..Len(log) :
        (log[i].op \in {"ContainerInspect", "executeCommand"} /\ ~log[i].ok)
            => (i = Len(log) /\ CopyCalls = {})

\* C9 as stated: the order above, and the path the copy call targets exists
\* in the container whenever the call is issued.
C9_AsStated ==
    /\ C9_Order
    /\ \A i \in CopyCalls : log[i].existed

\* C9 amended: the order above, and in variant 2 the path the copy call
\* targets exists in the container whenever the call is issued.
C9_CopyAfterMkdir ==
    /\ C9_Order
    /\ \A i \in CopyCalls : variant = 2 => log[i].existed

C9_Witness ==
    /\ variant = 2
    /\ CopyCalls # {}
    /\ targetPath \notin DOMAIN ContainerFS0
    /\ \A i \in CopyCalls : log[i].existed

Polling == pc \in {"ExecPoll", "ExecSleep"}

\* C10: the poll loop ends only at a status report of not-running or a
\* failed status call, and once the command has exited executeCommand
\* returns.
C10_PollLoop ==
    /\ [][(Polling /\ execRet.kind = "pending" /\ execRet'.kind # "pending")
            => (sess = "exited"
                \/ (execRet'.kind = "error" /\ execRet'.msg = "failed to inspect exec"))]_vars
    /\ [][(Polling /\ sess = "running" /\ sess' = "running" /\ execRet'.kind = "pending")
            => Polling']_vars
    /\ (Polling /\ sess = "exited") ~> (execRet.kind # "pending")

C10_Witness ==
    /\ sess = "exited"
    /\ execRet.kind = "nil"
    /\ stdoutBuf # <<>>
====
